---- MODULE Spec2Model ----
(***************************************************************************)
(* A model of the settings life cycle, the vault event handlers, the index *)
(* update handlers, the file utilities and the note IO classes of          *)
(* obsidian-math-booster.                                                  *)
(*                                                                         *)
(* JavaScript values are modelled as strings: "true"/"false" are the       *)
(* booleans, "7" is a number, "null" is null, "undefined" is undefined and *)
(* every other string is a JavaScript string.                              *)
(***************************************************************************)
EXTENDS Integers, Sequences, FiniteSets, TLC

VARIABLES
    \* ---- settings life cycle (main.ts) ----
    phase,          \* position in onload: "init", "loaded", "threw", "ready"
    disk,           \* what loadData() returns (the persisted data.json)
    settings,       \* MathBooster.settings: path -> entry
    extraSettings,  \* MathBooster.extraSettings
    excludedFiles,  \* MathBooster.excludedFiles: [defined, list]
    vault,          \* the paths of the documents that exist in the vault
    \* ---- NonActiveNoteIO (utils/obsidian.ts) ----
    fileData,       \* the content of the note, a sequence of characters
    call,           \* the last call of setLine, setRange or insertLine
    \* ---- index update handlers of the earlier onload ----
    notifications,  \* number of "dataview:metadata-change" notifications so far
    indexReady,     \* whether "dataview:index-ready" has fired
    dvLinks,        \* Dataview's index.links, as the number of the last change
    oldLinkMap,     \* MathPlugin.oldLinkMap: [by, links]
    runs,           \* the indexer runs: 0 the VaultIndexer, n the n-th notification's
    noteIndex,       \* the index: [by, version], the run that wrote it last
    \* ---- file utilities (utils/obsidian.ts) ----
    ieoc,           \* a call of isEqualToOrChildOf: [pc, file1, file2, ancestor, result]
    ga,             \* a call of getAncestors: [pc, file, ancestor, ancestors]
    \* ---- settings-updated handlers ----
    lastUpdated,    \* the node of the last local-settings-updated event
    reindexed,      \* the documents re-indexed in response to it
    view,           \* an open markdown view: [file, source, preview]
    profileTags     \* the tags of the profile resolved at the last refresh

settingsVars == <<phase, disk, settings, extraSettings, excludedFiles, vault>>

ioVars == <<fileData, call>>

indexVars == <<notifications, indexReady, dvLinks, oldLinkMap, runs, noteIndex>>

treeVars == <<ieoc, ga>>

updateVars == <<lastUpdated, reindexed, view, profileTags>>

vars == <<settingsVars, ioVars, indexVars, treeVars, updateVars>>

----------------------------------------------------------------------------
(* Bounds *)

\* number of documents in the vault when the plugin loads
NumDocs == 2

\* longest note content, in characters
MaxLen == 3

\* longest text handed to setLine, setRange or insertLine
MaxTextLen == 1

\* number of metadata-change notifications
MaxNotifications == 2

\* depth of the vault tree of the file utilities
MaxDepth == 3

\* the longest path of the tree of folders, in names
MaxPathLen == 3

----------------------------------------------------------------------------
(* JavaScript values *)

UNDEFINED == "undefined"
NULL == "null"

BooleanValues == {"true", "false"}
NumberValues == {"7"}

\* typeof val
TypeOf(val) ==
    IF val = UNDEFINED THEN "undefined"
    ELSE IF val = NULL THEN "object"
    ELSE IF val \in BooleanValues THEN "boolean"
    ELSE IF val \in NumberValues THEN "number"
    ELSE "string"

Range(s) == {s[i] : i \in DOMAIN s}

\* Array.prototype.indexOf, 1-based; 0 stands for -1
IndexOf(list, x) ==
    IF x \in Range(list)
    THEN CHOOSE i \in DOMAIN list : list[i] = x /\ \A j \in 1..(i - 1) : list[j] # x
    ELSE 0

\* list.splice(index, 1), 1-based
SpliceOne(list, index) ==
    [i \in 1..(Len(list) - 1) |-> IF i < index THEN list[i] ELSE list[i + 1]]

----------------------------------------------------------------------------
(* settings/settings.ts (not among the sources): the keys, their defaults  *)
(* and the allowed values of the enumerated keys                           *)

VAULT_ROOT == "/"

Keys == {"numberStyle", "lineByLine"}

DEFAULT_SETTINGS == [numberStyle |-> "arabic", lineByLine |-> "true"]

UNION_TYPE_MATH_CONTEXT_SETTING_KEYS == [numberStyle |-> {"arabic", "roman"}]

ExtraKeys == {"searchMethod", "triggerSuggest"}

DEFAULT_EXTRA_SETTINGS == [searchMethod |-> "Fuzzy", triggerSuggest |-> "\\ref"]

UNION_TYPE_EXTRA_SETTING_KEYS == [searchMethod |-> {"Fuzzy", "Simple"}]

----------------------------------------------------------------------------
(* Paths and entries *)

PathNames == <<"a.md", "b.md", "c.md", "d.md", "e.md">>

\* the documents that exist when the plugin loads
Docs == {PathNames[i] : i \in 1..NumDocs}

\* the paths a document can be renamed to: the documents and one spare path
Pool == {PathNames[i] : i \in 1..(NumDocs + 1)}

PathIndex(p) == IF p = VAULT_ROOT THEN 0 ELSE CHOOSE i \in DOMAIN PathNames : PathNames[i] = p

\* the paths of S as a sequence, in ascending index order (the root first)
RECURSIVE Ascending(_)
Ascending(S) ==
    IF S = {} THEN <<>>
    ELSE LET p == CHOOSE x \in S : \A y \in S : PathIndex(x) <= PathIndex(y)
         IN <<p>> \o Ascending(S \ {p})

Reverse(s) == [i \in 1..Len(s) |-> s[Len(s) + 1 - i]]

\* A value of the settings table, in memory or persisted: an object with
\* its fields (an absent field reads as undefined), or undefined, null or a
\* primitive (a number, a string) where an object was expected.
NoFields == [numberStyle |-> UNDEFINED, lineByLine |-> UNDEFINED, legacyKey |-> UNDEFINED]

Obj(fields) == [type |-> "object", fields |-> fields]

UndefinedEntry == [type |-> "undefined", fields |-> NoFields]
NullEntry == [type |-> "null", fields |-> NoFields]
PrimitiveEntry == [type |-> "primitive", fields |-> NoFields]

\* table[path] in JavaScript
Lookup(table, path) == IF path \in DOMAIN table THEN table[path] ELSE UndefinedEntry

\* delete table[path]
DeleteKey(table, path) == [p \in (DOMAIN table) \ {path} |-> table[p]]

\* table[path] = entry
SetKey(table, path, entry) ==
    [p \in (DOMAIN table) \cup {path} |-> IF p = path THEN entry ELSE table[p]]

----------------------------------------------------------------------------
(* The persisted data: what loadData() returns *)

\* the objects a persisted settings table holds under one path
PersistedFields ==
    { [numberStyle |-> UNDEFINED, lineByLine |-> UNDEFINED, legacyKey |-> "x"],
      [numberStyle |-> "bogus", lineByLine |-> "bogus", legacyKey |-> UNDEFINED],
      [numberStyle |-> "7", lineByLine |-> NULL, legacyKey |-> UNDEFINED],
      [numberStyle |-> "roman", lineByLine |-> "false", legacyKey |-> UNDEFINED] }

PersistedEntries == {Obj(f) : f \in PersistedFields} \cup {NullEntry, PrimitiveEntry}

\* the settings section: missing, or a table whose keys come in some order
PersistedTables ==
    UNION { [S -> PersistedEntries] : S \in SUBSET ({VAULT_ROOT} \cup Docs) }

\* the orders in which for-in may meet the keys of a persisted table
KeyOrders(t) == {Ascending(DOMAIN t), Reverse(Ascending(DOMAIN t))}

PersistedSettings ==
    { [type |-> "undefined", order |-> <<>>, nodes |-> <<>>] }
    \cup UNION { { [type |-> "object", order |-> o, nodes |-> t] : o \in KeyOrders(t) } :
                   t \in PersistedTables }

NoExtraFields == [searchMethod |-> UNDEFINED, triggerSuggest |-> UNDEFINED]

PersistedExtraSettings ==
    { [type |-> "undefined", fields |-> NoExtraFields],
      [type |-> "object", fields |-> [searchMethod |-> "Simple", triggerSuggest |-> UNDEFINED]],
      [type |-> "object", fields |-> [searchMethod |-> "bogus", triggerSuggest |-> "7"]] }

\* the excluded paths: missing, or a list that names documents of the
\* vault, each at most once
PersistedExcludedFiles ==
    { [defined |-> FALSE, list |-> <<>>] }
    \cup { [defined |-> TRUE, list |-> Ascending(S)] : S \in SUBSET Docs }

NoData ==
    [present |-> FALSE,
     settings |-> [type |-> "undefined", order |-> <<>>, nodes |-> <<>>],
     extraSettings |-> [type |-> "undefined", fields |-> NoExtraFields],
     excludedFiles |-> [defined |-> FALSE, list |-> <<>>]]

PersistedData ==
    { NoData }
    \cup { [present |-> TRUE, settings |-> s, extraSettings |-> e, excludedFiles |-> x] :
             s \in PersistedSettings, e \in PersistedExtraSettings,
             x \in PersistedExcludedFiles }

----------------------------------------------------------------------------
(* MathBooster.loadSettings *)

\* SettingValue without the typeof test of line 331
SettingValueUntyped(key, val) ==
    IF val = UNDEFINED THEN UNDEFINED
    ELSE IF key \in DOMAIN UNION_TYPE_MATH_CONTEXT_SETTING_KEYS
            /\ val \notin UNION_TYPE_MATH_CONTEXT_SETTING_KEYS[key]
    THEN DEFAULT_SETTINGS[key]
    ELSE val

\* SettingValue without the substitution of lines 324-330
SettingValueUnsubstituted(key, val) ==
    IF val = UNDEFINED THEN UNDEFINED
    ELSE IF TypeOf(val) = TypeOf(DEFAULT_SETTINGS[key]) THEN val ELSE UNDEFINED

\* The value the loader stores for a key of DEFAULT_SETTINGS whose persisted
\* value is val, or UNDEFINED when it stores nothing.
SettingValue(key, val) ==
    IF val = UNDEFINED THEN UNDEFINED
    ELSE LET v == IF key \in DOMAIN UNION_TYPE_MATH_CONTEXT_SETTING_KEYS
                     /\ val \notin UNION_TYPE_MATH_CONTEXT_SETTING_KEYS[key]
                  THEN DEFAULT_SETTINGS[key]
                  ELSE val
         IN IF TypeOf(v) = TypeOf(DEFAULT_SETTINGS[key]) THEN v ELSE UNDEFINED

\* the same for a key of DEFAULT_EXTRA_SETTINGS
ExtraSettingValue(key, val) ==
    IF val = UNDEFINED THEN UNDEFINED
    ELSE LET v == IF key \in DOMAIN UNION_TYPE_EXTRA_SETTING_KEYS
                     /\ val \notin UNION_TYPE_EXTRA_SETTING_KEYS[key]
                  THEN DEFAULT_EXTRA_SETTINGS[key]
                  ELSE val
         IN IF TypeOf(v) = TypeOf(DEFAULT_EXTRA_SETTINGS[key]) THEN v ELSE UNDEFINED

\* One round of the loop over the persisted paths. Reading a key of null
\* throws a TypeError; a primitive has no keys, and every read is undefined.
LoadPath(table, path, persisted) ==
    LET created == IF path # VAULT_ROOT THEN SetKey(table, path, Obj(NoFields)) ELSE table
        old == created[path].fields
        new == [k \in DOMAIN NoFields |->
                  IF k \in Keys /\ SettingValue(k, persisted.fields[k]) # UNDEFINED
                  THEN SettingValue(k, persisted.fields[k])
                  ELSE old[k]]
    IN IF persisted.type \in {"null", "undefined"}
       THEN [settings |-> created, threw |-> TRUE]
       ELSE [settings |-> SetKey(created, path, Obj(new)), threw |-> FALSE]

\* for (const path in settings), from the i-th key on
RECURSIVE LoadPaths(_, _, _)
LoadPaths(table, persisted, i) ==
    IF persisted.type # "object" \/ i > Len(persisted.order)
    THEN [settings |-> table, threw |-> FALSE]
    ELSE LET path == persisted.order[i]
             r == LoadPath(table, path, persisted.nodes[path])
         IN IF r.threw THEN r ELSE LoadPaths(r.settings, persisted, i + 1)

\* the loop over the keys of DEFAULT_EXTRA_SETTINGS
LoadExtra(persisted) ==
    [k \in ExtraKeys |->
        IF ExtraSettingValue(k, persisted.fields[k]) # UNDEFINED
        THEN ExtraSettingValue(k, persisted.fields[k])
        ELSE DEFAULT_EXTRA_SETTINGS[k]]

\* The fields of the plugin when loadSettings ends, and whether it ended by
\* throwing. Reading a key of an undefined extraSettings throws a TypeError.
LoadSettingsResult(data) ==
    LET fresh == [settings |-> [p \in {VAULT_ROOT} |->
                                   Obj([k \in DOMAIN NoFields |->
                                          IF k \in Keys THEN DEFAULT_SETTINGS[k] ELSE UNDEFINED])],
                  extraSettings |-> DEFAULT_EXTRA_SETTINGS,
                  excludedFiles |-> [defined |-> TRUE, list |-> <<>>],
                  threw |-> FALSE]
        paths == LoadPaths(fresh.settings, data.settings, 1)
    IN IF ~data.present THEN fresh
       ELSE IF paths.threw
       THEN [fresh EXCEPT !.settings = paths.settings, !.threw = TRUE]
       ELSE IF data.extraSettings.type # "object"
       THEN [fresh EXCEPT !.settings = paths.settings, !.threw = TRUE]
       ELSE [settings |-> paths.settings,
             extraSettings |-> LoadExtra(data.extraSettings),
             excludedFiles |-> data.excludedFiles,
             threw |-> FALSE]

\* onload, line 44: await this.loadSettings(). When it throws, onload ends.
LoadSettings ==
    /\ phase = "init"
    /\ LET r == LoadSettingsResult(disk)
       IN /\ settings' = r.settings
          /\ extraSettings' = r.extraSettings
          /\ excludedFiles' = r.excludedFiles
          /\ phase' = IF r.threw THEN "threw" ELSE "loaded"
    /\ UNCHANGED <<disk, vault>>
    /\ UNCHANGED <<ioVars, indexVars, treeVars, updateVars>>

----------------------------------------------------------------------------
(* MathBooster.saveSettings *)

\* SavedData without excludedFiles: this.excludedFiles of line 369
SavedDataWithoutExcluded ==
    LET kept == {p \in DOMAIN settings : settings[p].type # "undefined"}
    IN [present |-> TRUE,
        settings |-> [type |-> "object",
                      order |-> Ascending(kept),
                      nodes |-> [p \in kept |-> settings[p]]],
        extraSettings |-> [type |-> "object", fields |-> extraSettings],
        excludedFiles |-> [defined |-> FALSE, list |-> <<>>]]

\* JSON.stringify drops the keys whose value is undefined; the keys are
\* written in ascending order.
SavedData ==
    LET kept == {p \in DOMAIN settings : settings[p].type # "undefined"}
    IN [present |-> TRUE,
        settings |-> [type |-> "object",
                      order |-> Ascending(kept),
                      nodes |-> [p \in kept |-> settings[p]]],
        extraSettings |-> [type |-> "object", fields |-> extraSettings],
        excludedFiles |-> excludedFiles]

\* onload, line 45: await this.saveSettings(); the event handlers are
\* registered after it.
SaveSettings ==
    /\ phase = "loaded"
    /\ disk' = SavedData
    /\ phase' = "ready"
    /\ UNCHANGED <<settings, extraSettings, excludedFiles, vault>>
    /\ UNCHANGED <<ioVars, indexVars, treeVars, updateVars>>

----------------------------------------------------------------------------
(* The vault event handlers of onload *)

\* RenameSettings without the delete of line 160
RenameSettingsCopied(table, oldPath, newPath) ==
    SetKey(table, newPath, Lookup(table, oldPath))

\* vault.on("rename"): the document oldPath now has the path newPath.
\* indexOf of an undefined excludedFiles throws after the table is re-keyed.
RenameSettings(table, oldPath, newPath) ==
    DeleteKey(SetKey(table, newPath, Lookup(table, oldPath)), oldPath)

\* RenameExcluded without the splice of line 164
RenameExcludedUnspliced(excluded, oldPath, newPath) ==
    IF excluded.defined /\ IndexOf(excluded.list, oldPath) >= 1
    THEN [excluded EXCEPT !.list = Append(excluded.list, newPath)]
    ELSE excluded

RenameExcluded(excluded, oldPath, newPath) ==
    LET index == IndexOf(excluded.list, oldPath)
    IN IF ~excluded.defined THEN excluded
       ELSE IF index >= 1
       THEN [excluded EXCEPT !.list = Append(SpliceOne(excluded.list, index), newPath)]
       ELSE excluded

Rename(oldPath, newPath) ==
    /\ phase = "ready"
    /\ oldPath \in vault
    /\ newPath \notin vault
    /\ vault' = (vault \ {oldPath}) \cup {newPath}
    /\ settings' = RenameSettings(settings, oldPath, newPath)
    /\ excludedFiles' = RenameExcluded(excludedFiles, oldPath, newPath)
    /\ UNCHANGED <<phase, disk, extraSettings>>
    /\ UNCHANGED <<ioVars, indexVars, treeVars, updateVars>>

\* vault.on("delete"): the document path is gone.
\* DeleteSettings that forgets the delete of line 173
DeleteSettingsKept(table, path) == table

DeleteSettings(table, path) ==
    IF path \in DOMAIN table THEN DeleteKey(table, path) ELSE table

DeleteExcluded(excluded, path) ==
    LET index == IndexOf(excluded.list, path)
    IN IF ~excluded.defined THEN excluded
       ELSE IF index >= 1
       THEN [excluded EXCEPT !.list = SpliceOne(excluded.list, index)]
       ELSE excluded

Delete(path) ==
    /\ phase = "ready"
    /\ path \in vault
    /\ vault' = vault \ {path}
    /\ settings' = DeleteSettings(settings, path)
    /\ excludedFiles' = DeleteExcluded(excludedFiles, path)
    /\ UNCHANGED <<phase, disk, extraSettings>>
    /\ UNCHANGED <<ioVars, indexVars, treeVars, updateVars>>

----------------------------------------------------------------------------
(* utils: resolveSettings (not among the sources). The documents of this   *)
(* model lie directly under the root: the value in effect is the           *)
(* document's own value when it sets the key, and the root's otherwise.    *)

ResolveSetting(table, path, key) ==
    LET own == Lookup(table, path)
    IN IF own.type = "object" /\ own.fields[key] # UNDEFINED
       THEN own.fields[key]
       ELSE table[VAULT_ROOT].fields[key]

----------------------------------------------------------------------------
(* The vault events of a tree of folders. A path is the sequence of its    *)
(* names; the vault delivers the rename or delete event of a folder for    *)
(* the folder and for each file and folder below it, and the handlers of   *)
(* onload run once per event.                                              *)

FolderNames == {"f", "g"}
FileNames == {"a.md"}

\* the key of the root in the settings table
RootPath == <<VAULT_ROOT>>

IsFolderPath(path) == path[Len(path)] \in FolderNames

RECURSIVE PathsOfLen(_)
PathsOfLen(n) ==
    IF n = 1 THEN { <<name>> : name \in FolderNames \cup FileNames }
    ELSE { Append(folder, name) : folder \in {p \in PathsOfLen(n - 1) : IsFolderPath(p)},
                                  name \in FolderNames \cup FileNames }

TreePaths == UNION { PathsOfLen(n) : n \in 1..MaxPathLen }

\* path lies below folder
IsUnder(path, folder) ==
    Len(folder) < Len(path) /\ SubSeq(path, 1, Len(folder)) = folder

\* the paths an event of node is delivered for
Affected(node) == {p \in vault : p = node \/ IsUnder(p, node)}

\* the path of an affected file after node has become newNode
MovedPath(path, node, newNode) == newNode \o SubSeq(path, Len(node) + 1, Len(path))

\* the orders in which the events of a set of paths may arrive
EventOrders(paths) ==
    {order \in [1..Cardinality(paths) -> paths] :
        \A i, j \in 1..Cardinality(paths) : order[i] = order[j] => i = j}

\* the rename handler, run for the events from the i-th on
RECURSIVE RenameEach(_, _, _, _, _)
RenameEach(state, order, i, node, newNode) ==
    IF i > Len(order) THEN state
    ELSE RenameEach(
            [settings |-> RenameSettings(state.settings, order[i], MovedPath(order[i], node, newNode)),
             excludedFiles |-> RenameExcluded(state.excludedFiles, order[i], MovedPath(order[i], node, newNode))],
            order, i + 1, node, newNode)

\* the delete handler, run for the events from the i-th on
RECURSIVE DeleteEach(_, _, _)
DeleteEach(state, order, i) ==
    IF i > Len(order) THEN state
    ELSE DeleteEach(
            [settings |-> DeleteSettings(state.settings, order[i]),
             excludedFiles |-> DeleteExcluded(state.excludedFiles, order[i])],
            order, i + 1)

\* a file or folder is renamed or moved: node becomes newNode
RenameTree(node, newNode) ==
    /\ phase = "ready"
    /\ node \in vault
    /\ newNode \notin vault
    /\ IsFolderPath(node) <=> IsFolderPath(newNode)
    /\ Len(newNode) = 1 \/ SubSeq(newNode, 1, Len(newNode) - 1) \in vault
    /\ ~IsUnder(newNode, node)
    /\ \A p \in Affected(node) : MovedPath(p, node, newNode) \in TreePaths
    /\ vault' = (vault \ Affected(node)) \cup {MovedPath(p, node, newNode) : p \in Affected(node)}
    /\ \E order \in EventOrders(Affected(node)) :
          LET after == RenameEach([settings |-> settings, excludedFiles |-> excludedFiles],
                                  order, 1, node, newNode)
          IN /\ settings' = after.settings
             /\ excludedFiles' = after.excludedFiles
    /\ UNCHANGED <<phase, disk, extraSettings>>
    /\ UNCHANGED <<ioVars, indexVars, treeVars, updateVars>>

\* a file or folder is deleted
DeleteTree(node) ==
    /\ phase = "ready"
    /\ node \in vault
    /\ vault' = vault \ Affected(node)
    /\ \E order \in EventOrders(Affected(node)) :
          LET after == DeleteEach([settings |-> settings, excludedFiles |-> excludedFiles],
                                  order, 1)
          IN /\ settings' = after.settings
             /\ excludedFiles' = after.excludedFiles
    /\ UNCHANGED <<phase, disk, extraSettings>>
    /\ UNCHANGED <<ioVars, indexVars, treeVars, updateVars>>

\* the tree the vault starts with
InitialTree == { <<"f">>, <<"f", "a.md">>, <<"f", "g">>, <<"a.md">> }

\* a list of the paths of a set, each once
RECURSIVE ListOf(_)
ListOf(paths) ==
    IF paths = {} THEN <<>>
    ELSE LET p == CHOOSE q \in paths : TRUE
         IN <<p>> \o ListOf(paths \ {p})

----------------------------------------------------------------------------
(* Strings: sequences of characters *)

Alphabet == {"a", "b", "\n"}

Strings(n) == UNION { [1..k -> Alphabet] : k \in 0..n }

Min(a, b) == IF a <= b THEN a ELSE b

\* String.prototype.slice(from, to) for indices >= 0 (0-based, to excluded)
Slice(str, from, to) ==
    LET f == Min(from, Len(str))
        t == Min(to, Len(str))
    IN IF f >= t THEN <<>> ELSE SubSeq(str, f + 1, t)

\* utils/general: splitIntoLines (not among the sources): text.split("\n")
RECURSIVE splitIntoLines(_)
splitIntoLines(data) ==
    IF "\n" \notin Range(data) THEN <<data>>
    ELSE LET i == IndexOf(data, "\n")
         IN <<SubSeq(data, 1, i - 1)>> \o splitIntoLines(SubSeq(data, i + 1, Len(data)))

\* Array.prototype.join("\n")
RECURSIVE Join(_)
Join(lines) ==
    IF Len(lines) = 0 THEN <<>>
    ELSE IF Len(lines) = 1 THEN lines[1]
    ELSE lines[1] \o <<"\n">> \o Join(Tail(lines))

\* utils/general: insertAt (not among the sources): array.splice(index, 0, item)
insertAt(lines, item, index) ==
    LET i == Min(index, Len(lines))
    IN SubSeq(lines, 1, i) \o <<item>> \o SubSeq(lines, i + 1, Len(lines))

----------------------------------------------------------------------------
(* NonActiveNoteIO *)

Position(from, to) == [start |-> [offset |-> from], end |-> [offset |-> to]]

\* the callbacks handed to vault.process
\* setLine: lines[lineNumber] = text; a line number past the end leaves
\* holes, which join writes as empty lines
SetLineData(data, lineNumber, text) ==
    LET lines == splitIntoLines(data)
        n == IF lineNumber + 1 > Len(lines) THEN lineNumber + 1 ELSE Len(lines)
    IN Join([i \in 1..n |->
                IF i = lineNumber + 1 THEN text
                ELSE IF i <= Len(lines) THEN lines[i]
                ELSE <<>>])

SetRangeData(data, position, text) ==
    Slice(data, 0, position.start.offset) \o text
        \o Slice(data, position.end.offset + 1, Len(data))

InsertLineData(data, lineNumber, text) ==
    Join(insertAt(splitIntoLines(data), text, lineNumber))

\* getLine and getRange on the content cachedRead returns
GetLineResult(data, lineNumber) ==
    LET lines == splitIntoLines(data)
    IN IF lineNumber + 1 <= Len(lines) THEN lines[lineNumber + 1] ELSE <<UNDEFINED>>

GetRangeResult(content, position) ==
    Slice(content, position.start.offset, position.end.offset)

\* what the pending vault.process writes
ProcessedData(data, c) ==
    IF c.op = "setLine" THEN SetLineData(data, c.lineNumber, c.text)
    ELSE IF c.op = "setRange" THEN SetRangeData(data, c.position, c.text)
    ELSE InsertLineData(data, c.lineNumber, c.text)

\* no call yet
NoCall ==
    [op |-> "none", lineNumber |-> 0,
     position |-> [start |-> [offset |-> 0], end |-> [offset |-> 0]],
     text |-> <<>>, promise |-> "none", write |-> "none"]

\* A call starts vault.process and neither awaits nor returns its promise:
\* the async method's own promise resolves when its body ends.
StartCall(c) ==
    /\ call.write # "pending"
    /\ Len(ProcessedData(fileData, c)) <= MaxLen
    /\ call' = [c EXCEPT !.promise = "resolved", !.write = "pending"]
    /\ UNCHANGED fileData
    /\ UNCHANGED <<settingsVars, indexVars, treeVars, updateVars>>

SetLine(lineNumber, text) ==
    StartCall([NoCall EXCEPT !.op = "setLine", !.lineNumber = lineNumber, !.text = text])

SetRange(position, text) ==
    StartCall([NoCall EXCEPT !.op = "setRange", !.position = position, !.text = text])

InsertLine(lineNumber, text) ==
    StartCall([NoCall EXCEPT !.op = "insertLine", !.lineNumber = lineNumber, !.text = text])

\* vault.process reads the file, applies the callback and writes the result
ProcessDone ==
    /\ call.write = "pending"
    /\ fileData' = ProcessedData(fileData, call)
    /\ call' = [call EXCEPT !.write = "done"]
    /\ UNCHANGED <<settingsVars, indexVars, treeVars, updateVars>>

\* the write of vault.process fails: its promise rejects, the file stays
ProcessFail ==
    /\ call.write = "pending"
    /\ call' = [call EXCEPT !.write = "failed"]
    /\ UNCHANGED fileData
    /\ UNCHANGED <<settingsVars, indexVars, treeVars, updateVars>>

----------------------------------------------------------------------------
(* ActiveNoteIO: the same operations through the Editor interface *)

\* the Loc of the metadata cache for an offset of data: the line is the
\* number of line breaks before the offset, col the distance from the last
LocAt(data, offset) ==
    LET breaks == {i \in 1..Min(offset, Len(data)) : data[i] = "\n"}
        lastBreak == IF breaks = {} THEN 0 ELSE CHOOSE i \in breaks : \A j \in breaks : j <= i
    IN [line |-> Cardinality(breaks), col |-> offset - lastBreak, offset |-> offset]

\* utils/editor: locToEditorPosition (not among the sources)
locToEditorPosition(loc) == [line |-> loc.line, ch |-> loc.col]

\* Editor.posToOffset: the offset of an EditorPosition in the document
RECURSIVE LineStart(_, _)
LineStart(lines, line) ==
    IF line = 0 THEN 0
    ELSE LineStart(lines, line - 1) + Len(lines[line]) + 1

EditorPosToOffset(doc, pos) == LineStart(splitIntoLines(doc), pos.line) + pos.ch

\* Editor.replaceRange(replacement, from, to): the half-open range from..to
EditorReplaceRange(doc, replacement, from, to) ==
    Slice(doc, 0, EditorPosToOffset(doc, from)) \o replacement
        \o Slice(doc, EditorPosToOffset(doc, to), Len(doc))

\* Editor.getLine(line), Editor.setLine(line, text), for a line of the document
EditorGetLine(doc, line) == splitIntoLines(doc)[line + 1]

EditorSetLine(doc, line, text) ==
    Join([splitIntoLines(doc) EXCEPT ![line + 1] = text])

\* ActiveNoteIO.setLine, setRange, insertLine: the document they leave
ActiveSetLineData(doc, lineNumber, text) == EditorSetLine(doc, lineNumber, text)

ActiveSetRangeData(doc, position, text) ==
    LET from == locToEditorPosition(LocAt(doc, position.start.offset))
        to == locToEditorPosition(LocAt(doc, position.end.offset))
    IN EditorReplaceRange(doc, text, from, to)

ActiveInsertLineData(doc, lineNumber, text) ==
    EditorReplaceRange(doc, text \o <<"\n">>,
                       [line |-> lineNumber, ch |-> 0], [line |-> lineNumber, ch |-> 0])

\* ActiveNoteIO.getLine, getRange
ActiveGetLineResult(doc, lineNumber) == EditorGetLine(doc, lineNumber)

ActiveGetRangeResult(doc, position) ==
    LET from == locToEditorPosition(LocAt(doc, position.start.offset))
        to == locToEditorPosition(LocAt(doc, position.end.offset))
    IN Slice(doc, EditorPosToOffset(doc, from), EditorPosToOffset(doc, to))

\* what the call leaves in the editor when it is made through ActiveNoteIO
ActiveData(doc, c) ==
    IF c.op = "setLine" THEN ActiveSetLineData(doc, c.lineNumber, c.text)
    ELSE IF c.op = "setRange" THEN ActiveSetRangeData(doc, c.position, c.text)
    ELSE ActiveInsertLineData(doc, c.lineNumber, c.text)

----------------------------------------------------------------------------
(* The noteIndex update handlers of the earlier onload (MathPlugin)            *)
(*                                                                         *)
(* The indexers are not among the sources. A run scans what Dataview holds *)
(* at some moment after its start and applies the result when it ends;     *)
(* the other steps of the event loop may come between the two.             *)

NoRun == [stage |-> "none", scanned |-> 0]

\* MathPlugin.setOldLinkMap, called by the handler of notification by
SetOldLinkMap(by) == [by |-> by, links |-> dvLinks]

\* "dataview:noteIndex-ready": the snapshot, then a VaultIndexer run that the
\* handler does not await
IndexReady ==
    /\ ~indexReady
    /\ indexReady' = TRUE
    /\ oldLinkMap' = SetOldLinkMap(0)
    /\ runs' = [runs EXCEPT ![0] = [stage |-> "running", scanned |-> 0]]
    /\ UNCHANGED <<notifications, dvLinks, noteIndex>>
    /\ UNCHANGED <<settingsVars, ioVars, treeVars, updateVars>>

\* "dataview:metadata-change", up to the await: a LinkedNotesIndexer run
\* starts when the changed file is a TFile; otherwise the snapshot is taken
\* at once
MetadataChange(isFile) ==
    /\ notifications < MaxNotifications
    /\ notifications' = notifications + 1
    /\ dvLinks' = notifications + 1
    /\ IF isFile
       THEN /\ runs' = [runs EXCEPT ![notifications + 1] = [stage |-> "running", scanned |-> 0]]
            /\ UNCHANGED oldLinkMap
       ELSE /\ runs' = [runs EXCEPT ![notifications + 1] = [stage |-> "done", scanned |-> 0]]
            /\ oldLinkMap' = [by |-> notifications + 1, links |-> notifications + 1]
    /\ UNCHANGED <<indexReady, noteIndex>>
    /\ UNCHANGED <<settingsVars, ioVars, treeVars, updateVars>>

\* a run reads what it indexes
RunScan(id) ==
    /\ runs[id].stage = "running"
    /\ runs' = [runs EXCEPT ![id] = [stage |-> "scanned", scanned |-> dvLinks]]
    /\ UNCHANGED <<notifications, indexReady, dvLinks, oldLinkMap, noteIndex>>
    /\ UNCHANGED <<settingsVars, ioVars, treeVars, updateVars>>

\* A run ends and applies its result. The handler of a notification goes
\* on after its await: this.setOldLinkMap().
RunFinish(id) ==
    /\ runs[id].stage = "scanned"
    /\ runs' = [runs EXCEPT ![id].stage = "done"]
    /\ noteIndex' = [by |-> id, version |-> runs[id].scanned]
    /\ oldLinkMap' = IF id >= 1 THEN SetOldLinkMap(id) ELSE oldLinkMap
    /\ UNCHANGED <<notifications, indexReady, dvLinks>>
    /\ UNCHANGED <<settingsVars, ioVars, treeVars, updateVars>>

----------------------------------------------------------------------------
(* The vault tree of the file utilities: a node is the sequence of the     *)
(* steps from the root; step 1 leads to a folder, step 2 to a markdown     *)
(* file, step 3 to a file of another extension.                            *)

RECURSIVE NodesOfDepth(_)
NodesOfDepth(d) ==
    IF d = 0 THEN {<<>>}
    ELSE { Append(n, k) : n \in {m \in NodesOfDepth(d - 1) : m = <<>> \/ m[Len(m)] = 1},
                          k \in 1..3 }

Nodes == UNION { NodesOfDepth(d) : d \in 0..MaxDepth }

RootFolder == <<>>

\* null, where a TAbstractFile is expected
NoFile == <<0>>

\* file instanceof TFolder, file instanceof TFile
IsTFolder(file) == file = RootFolder \/ file[Len(file)] = 1
IsTFile(file) == file \in Nodes /\ ~IsTFolder(file)

\* TFile.extension
Extension(file) == IF file[Len(file)] = 2 THEN "md" ELSE "png"

\* TFolder.isRoot()
isRoot(file) == file = RootFolder

\* TAbstractFile.parent: null for the root folder
Parent(file) == IF file = RootFolder THEN NoFile ELSE SubSeq(file, 1, Len(file) - 1)

\* TFolder.children
Children(file) == {n \in Nodes : n # RootFolder /\ Parent(n) = file}

\* the files the callback of iterDescendantFiles is called for
RECURSIVE iterDescendantFiles(_)
iterDescendantFiles(file) ==
    IF IsTFile(file) THEN {file}
    ELSE UNION { iterDescendantFiles(child) : child \in Children(file) }

\* isEqualToOrChildOf, up to its loop
NoIeoc == [pc |-> "idle", file1 |-> NoFile, file2 |-> NoFile, ancestor |-> NoFile, result |-> FALSE]

CallIsEqualToOrChildOf(file1, file2) ==
    /\ ieoc.pc \in {"idle", "done"}
    /\ ieoc' = IF file1 = file2
               THEN [pc |-> "done", file1 |-> file1, file2 |-> file2, ancestor |-> NoFile, result |-> TRUE]
               ELSE IF IsTFolder(file2) /\ isRoot(file2)
               THEN [pc |-> "done", file1 |-> file1, file2 |-> file2, ancestor |-> NoFile, result |-> TRUE]
               ELSE [pc |-> "loop", file1 |-> file1, file2 |-> file2, ancestor |-> Parent(file1), result |-> FALSE]
    /\ UNCHANGED ga
    /\ UNCHANGED <<settingsVars, ioVars, indexVars, updateVars>>

\* one round of while (true): with ancestor null and file2 another node
\* the round changes nothing and the loop goes on
LoopIsEqualToOrChildOf ==
    /\ ieoc.pc = "loop"
    /\ ieoc' = IF ieoc.ancestor = ieoc.file2
               THEN [ieoc EXCEPT !.pc = "done", !.result = TRUE]
               ELSE IF ieoc.ancestor # NoFile
               THEN IF isRoot(ieoc.ancestor)
                    THEN [ieoc EXCEPT !.pc = "done", !.result = FALSE]
                    ELSE [ieoc EXCEPT !.ancestor = Parent(ieoc.ancestor)]
               ELSE ieoc
    /\ UNCHANGED ga
    /\ UNCHANGED <<settingsVars, ioVars, indexVars, updateVars>>

\* getAncestors, up to its loop
NoGa == [pc |-> "idle", file |-> NoFile, ancestor |-> NoFile, ancestors |-> <<>>]

CallGetAncestors(file) ==
    /\ ga.pc \in {"idle", "done"}
    /\ ga' = [pc |-> "loop", file |-> file, ancestor |-> file, ancestors |-> <<>>]
    /\ UNCHANGED ieoc
    /\ UNCHANGED <<settingsVars, ioVars, indexVars, updateVars>>

\* ancestors.reverse(), with a variant that returns the list as pushed
AncestorsAsPushed(ancestors) == ancestors

ReturnedAncestors(ancestors) == Reverse(ancestors)

\* one round of while (ancestor), or the end of the loop and the return.
\* The break tests file, the argument, not ancestor.
LoopGetAncestors ==
    /\ ga.pc = "loop"
    /\ ga' = IF ga.ancestor = NoFile
             THEN [ga EXCEPT !.pc = "done", !.ancestors = ReturnedAncestors(ga.ancestors)]
             ELSE IF IsTFolder(ga.file) /\ isRoot(ga.file)
             THEN [ga EXCEPT !.pc = "done",
                             !.ancestors = ReturnedAncestors(Append(ga.ancestors, ga.ancestor))]
             ELSE [ga EXCEPT !.ancestors = Append(ga.ancestors, ga.ancestor),
                             !.ancestor = Parent(ga.ancestor)]
    /\ UNCHANGED ieoc
    /\ UNCHANGED <<settingsVars, ioVars, indexVars, updateVars>>

----------------------------------------------------------------------------
(* The settings-updated handlers and the profile tags of a view *)

\* a class of an element: "math-booster-" + name when plugin, else name
TagClass(tag) == [plugin |-> TRUE, name |-> tag]

\* utils: getProfile(...).meta.tags (not among the sources): the tag lists
\* of the profiles
ProfileTagLists == { <<"en">>, <<"ja">>, <<"en", "big">> }

\* el.classList.remove(cls)
RemoveClass(classList, cls) == SelectSeq(classList, LAMBDA c : c # cls)

\* el.classList.forEach from index i on (1-based). The list is live: after
\* a removal the next class has moved to the index just visited, and the
\* iteration goes on behind it.
RECURSIVE ForEachRemove(_, _)
ForEachRemove(classList, i) ==
    IF i > Len(classList) THEN classList
    ELSE IF classList[i].plugin
    THEN ForEachRemove(RemoveClass(classList, classList[i]), i + 1)
    ELSE ForEachRemove(classList, i + 1)

\* el.addClass(...classes): each class that the list lacks is appended
RECURSIVE AddClasses(_, _)
AddClasses(classList, classes) ==
    IF Len(classes) = 0 THEN classList
    ELSE AddClasses(IF Head(classes) \in Range(classList)
                    THEN classList
                    ELSE Append(classList, Head(classes)),
                    Tail(classes))

\* MathBooster.setProfileTagAsCSSClass for one element, tags being the
\* tags of the profile resolved for the file of the view
ElementClasses(classList, tags) ==
    AddClasses(ForEachRemove(classList, 1), [i \in 1..Len(tags) |-> TagClass(tags[i])])

setProfileTagAsCSSClass(v, tags) ==
    [v EXCEPT !.source = ElementClasses(v.source, tags),
              !.preview = ElementClasses(v.preview, tags)]

\* "math-booster:local-settings-updated" for a file or folder: the
\* indexing of the descendants is commented out, so no document is
\* re-indexed; the views get the tags of their profiles as classes.
LocalSettingsUpdated(file, tags) ==
    /\ lastUpdated' = file
    /\ reindexed' = {}
    /\ view' = setProfileTagAsCSSClass(view, tags)
    /\ profileTags' = tags
    /\ UNCHANGED <<settingsVars, ioVars, indexVars, treeVars>>

\* The earlier onload: the callback of the local settings of the current
\* note runs an ActiveNoteIndexer on the active view when its file has a
\* cache.
OpenLocalSettingsCallback(hasCache) ==
    /\ lastUpdated' = view.file
    /\ reindexed' = IF hasCache THEN {view.file} ELSE {}
    /\ UNCHANGED <<view, profileTags>>
    /\ UNCHANGED <<settingsVars, ioVars, indexVars, treeVars>>

\* "active-leaf-change" for the leaf of the view: the profile resolved for
\* its file may have changed since the classes were set
ActiveLeafChange(tags) ==
    /\ view' = setProfileTagAsCSSClass(view, tags)
    /\ profileTags' = tags
    /\ UNCHANGED <<lastUpdated, reindexed>>
    /\ UNCHANGED <<settingsVars, ioVars, indexVars, treeVars>>

----------------------------------------------------------------------------
(* Specifications *)

IdleSettings ==
    /\ phase = "init"
    /\ disk = NoData
    /\ settings = <<>>
    /\ extraSettings = NoExtraFields
    /\ excludedFiles = [defined |-> FALSE, list |-> <<>>]
    /\ vault = Docs

IdleIO == fileData = <<>> /\ call = NoCall

IdleIndex ==
    /\ notifications = 0
    /\ indexReady = FALSE
    /\ dvLinks = 0
    /\ oldLinkMap = [by |-> -1, links |-> 0]
    /\ runs = [id \in 0..MaxNotifications |-> NoRun]
    /\ noteIndex = [by |-> -1, version |-> 0]

IdleTree == ieoc = NoIeoc /\ ga = NoGa

NoView ==
    [file |-> NoFile,
     source |-> <<[plugin |-> FALSE, name |-> "markdown-source-view"]>>,
     preview |-> <<[plugin |-> FALSE, name |-> "markdown-preview-view"]>>]

IdleUpdate ==
    /\ lastUpdated = NoFile
    /\ reindexed = {}
    /\ view = NoView
    /\ profileTags = <<>>

\* the settings life cycle: onload, then the vault events
Init ==
    /\ phase = "init"
    /\ disk \in PersistedData
    /\ settings = <<>>
    /\ extraSettings = NoExtraFields
    /\ excludedFiles = [defined |-> FALSE, list |-> <<>>]
    /\ vault = Docs
    /\ IdleIO /\ IdleIndex /\ IdleTree /\ IdleUpdate

Next ==
    \/ LoadSettings
    \/ SaveSettings
    \/ \E oldPath \in Pool, newPath \in Pool : Rename(oldPath, newPath)
    \/ \E path \in Pool : Delete(path)

Spec == Init /\ [][Next]_vars

\* the writes of NonActiveNoteIO on one note
InitIO ==
    /\ fileData \in Strings(MaxLen)
    /\ call = NoCall
    /\ IdleSettings /\ IdleIndex /\ IdleTree /\ IdleUpdate

NextIO ==
    \/ \E lineNumber \in 0..MaxLen, text \in Strings(MaxTextLen) : SetLine(lineNumber, text)
    \/ \E to \in 0..Len(fileData), text \in Strings(MaxTextLen) :
          \E from \in 0..to : SetRange(Position(from, to), text)
    \/ \E lineNumber \in 0..MaxLen, text \in Strings(MaxTextLen) : InsertLine(lineNumber, text)
    \/ ProcessDone
    \/ ProcessFail

SpecIO == InitIO /\ [][NextIO]_vars

\* the index update handlers
InitIndex == IdleIndex /\ IdleSettings /\ IdleIO /\ IdleTree /\ IdleUpdate

NextIndex ==
    \/ IndexReady
    \/ \E isFile \in BOOLEAN : MetadataChange(isFile)
    \/ \E id \in 0..MaxNotifications : RunScan(id)
    \/ \E id \in 0..MaxNotifications : RunFinish(id)

SpecIndex == InitIndex /\ [][NextIndex]_vars

\* the file utilities, called on the nodes of the vault tree
InitTree == IdleTree /\ IdleSettings /\ IdleIO /\ IdleIndex /\ IdleUpdate

NextTree ==
    \/ \E file1 \in Nodes, file2 \in Nodes : CallIsEqualToOrChildOf(file1, file2)
    \/ LoopIsEqualToOrChildOf
    \/ \E file \in Nodes : CallGetAncestors(file)
    \/ LoopGetAncestors

SpecTree == InitTree /\ [][NextTree]_vars

\* a started call goes on running: the loops are synchronous code
FairSpecTree == SpecTree /\ WF_vars(LoopIsEqualToOrChildOf) /\ WF_vars(LoopGetAncestors)

\* the settings-updated handlers, with one markdown view open
InitUpdate ==
    /\ lastUpdated = NoFile
    /\ reindexed = {}
    /\ view \in { [NoView EXCEPT !.file = f] : f \in {n \in Nodes : IsTFile(n) /\ Extension(n) = "md"} }
    /\ profileTags = <<>>
    /\ IdleSettings /\ IdleIO /\ IdleIndex /\ IdleTree

NextUpdate ==
    \/ \E file \in Nodes, tags \in ProfileTagLists : LocalSettingsUpdated(file, tags)
    \/ \E hasCache \in BOOLEAN : OpenLocalSettingsCallback(hasCache)
    \/ \E tags \in ProfileTagLists : ActiveLeafChange(tags)

SpecUpdate == InitUpdate /\ [][NextUpdate]_vars

\* the vault events of a tree of folders, from a state in which every
\* override and every exclusion belongs to a file or folder of the vault
InitFolders ==
    /\ phase = "ready"
    /\ disk = NoData
    /\ extraSettings = DEFAULT_EXTRA_SETTINGS
    /\ vault = InitialTree
    /\ settings \in { [p \in S \cup {RootPath} |-> Obj([NoFields EXCEPT !.numberStyle = "roman"])] :
                         S \in SUBSET InitialTree }
    /\ excludedFiles \in { [defined |-> FALSE, list |-> <<>>] }
                          \cup { [defined |-> TRUE, list |-> ListOf(S)] : S \in SUBSET InitialTree }
    /\ IdleIO /\ IdleIndex /\ IdleTree /\ IdleUpdate

NextFolders ==
    \/ \E node \in TreePaths, newNode \in TreePaths : RenameTree(node, newNode)
    \/ \E node \in TreePaths : DeleteTree(node)

SpecFolders == InitFolders /\ [][NextFolders]_vars

----------------------------------------------------------------------------
(* Claims about the settings life cycle *)

Loaded == phase \in {"loaded", "threw"}

SparePath == PathNames[NumDocs + 1]

\* C1: loadSettings never aborts: whatever loadData returned, it completes
\* without throwing, and every missing or discarded item ends at its
\* default (default extra settings, empty exclusion list).
C1_LoadSettingsNeverAborts ==
    Loaded =>
        /\ phase = "loaded"
        /\ excludedFiles.defined
        /\ ~disk.excludedFiles.defined => excludedFiles.list = <<>>
        /\ disk.extraSettings.type # "object" => extraSettings = DEFAULT_EXTRA_SETTINGS

\* C2: the root settings node sets every key: after loadSettings on any
\* persisted data and after any rename and delete events, settings[VAULT_ROOT]
\* exists and holds for every key of DEFAULT_SETTINGS a value of the type of
\* the default, and of the allowed set when the key is enumerated.
C2_RootSetsEveryKey ==
    phase # "init" =>
        /\ VAULT_ROOT \in DOMAIN settings
        /\ settings[VAULT_ROOT].type = "object"
        /\ \A k \in Keys :
              /\ TypeOf(settings[VAULT_ROOT].fields[k]) = TypeOf(DEFAULT_SETTINGS[k])
              /\ k \in DOMAIN UNION_TYPE_MATH_CONTEXT_SETTING_KEYS
                    => settings[VAULT_ROOT].fields[k] \in UNION_TYPE_MATH_CONTEXT_SETTING_KEYS[k]

\* C2 witness: the root holds a persisted value after a rename and a delete
C2_Witness ==
    /\ phase = "ready"
    /\ SparePath \in vault
    /\ Cardinality(vault) < NumDocs
    /\ settings[VAULT_ROOT].fields["numberStyle"] = "roman"

\* the persisted values of enumerated keys that lie outside the allowed set
InvalidEnumerated ==
    { pk \in (DOMAIN disk.settings.nodes) \X (DOMAIN UNION_TYPE_MATH_CONTEXT_SETTING_KEYS) :
        /\ disk.settings.nodes[pk[1]].type = "object"
        /\ disk.settings.nodes[pk[1]].fields[pk[2]] # UNDEFINED
        /\ disk.settings.nodes[pk[1]].fields[pk[2]] \notin UNION_TYPE_MATH_CONTEXT_SETTING_KEYS[pk[2]] }

StoredNowhere(val) ==
    \A q \in DOMAIN settings : \A k \in Keys : settings[q].fields[k] # val

\* C3 as stated: an invalid enumerated value is stored nowhere after
\* loadSettings, and the value in effect for its path and key is the value
\* of the root node for that key.
C3_InvalidEnumGetsRootValue ==
    Loaded =>
        \A pk \in InvalidEnumerated :
            /\ StoredNowhere(disk.settings.nodes[pk[1]].fields[pk[2]])
            /\ ResolveSetting(settings, pk[1], pk[2]) = settings[VAULT_ROOT].fields[pk[2]]

\* C3 amended: an invalid enumerated value is stored nowhere after
\* loadSettings, and where the loader reached its path the value in effect
\* for that path and key is DEFAULT_SETTINGS[key], the built-in default,
\* whatever value the root node holds for the key.
C3_InvalidEnumGetsBuiltInDefault ==
    Loaded =>
        \A pk \in InvalidEnumerated :
            /\ StoredNowhere(disk.settings.nodes[pk[1]].fields[pk[2]])
            /\ pk[1] \in DOMAIN settings
                  => ResolveSetting(settings, pk[1], pk[2]) = DEFAULT_SETTINGS[pk[2]]

\* C3 witness: a document's invalid numbering style was replaced by the
\* built-in default while the root holds another style
C3_Witness ==
    /\ phase = "loaded"
    /\ \E p \in Docs :
          /\ <<p, "numberStyle">> \in InvalidEnumerated
          /\ settings[p].fields["numberStyle"] = "arabic"
          /\ settings[VAULT_ROOT].fields["numberStyle"] = "roman"

IsRename(oldPath, newPath) ==
    /\ phase = "ready"
    /\ oldPath \in vault
    /\ newPath \notin vault
    /\ vault' = (vault \ {oldPath}) \cup {newPath}

IsDelete(path) ==
    /\ phase = "ready"
    /\ path \in vault
    /\ vault' = vault \ {path}

Excluded(excluded, path) == path \in Range(excluded.list)

Without(list, path) == SelectSeq(list, LAMBDA x : x # path)

----------------------------------------------------------------------------
(* Claims about NonActiveNoteIO *)

\* C7: a storage write failure is surfaced to the caller: when the vault
\* write of setLine, setRange or insertLine fails, the promise the call
\* returned rejects; no call reports success for a write that failed.
C7_WriteFailureSurfaced ==
    call.write = "failed" => call.promise = "rejected"

\* C10: setRange(position, text) replaces exactly the characters that
\* getRange(position) reads, the half-open range from start.offset to
\* end.offset: the characters before start.offset and those at or after
\* end.offset are in the new content unchanged.
C10_SetRangeReplacesRange ==
    [][(call.op = "setRange" /\ call.write = "pending" /\ call'.write = "done") =>
          /\ fileData = Slice(fileData, 0, call.position.start.offset)
                            \o GetRangeResult(fileData, call.position)
                            \o Slice(fileData, call.position.end.offset, Len(fileData))
          /\ fileData' = Slice(fileData, 0, call.position.start.offset)
                            \o call.text
                            \o Slice(fileData, call.position.end.offset, Len(fileData))]_vars

----------------------------------------------------------------------------
(* Claims about the update handlers and the file utilities *)

\* the markdown documents that are file or lie under it at any depth
MarkdownDescendants(file) == {f \in iterDescendantFiles(file) : Extension(f) = "md"}

\* C6: a local settings change propagates to all descendants: once the
\* local-settings-updated event has fired for a node, every markdown
\* document that is the node or lies under it at any depth is re-indexed.
C6_DescendantsReindexed ==
    lastUpdated # NoFile => MarkdownDescendants(lastUpdated) \subseteq reindexed

HandlersDone ==
    \A id \in 1..MaxNotifications : runs[id].stage \in {"none", "done"}

\* C8: noteIndex updates are never applied out of order: the run of an
\* earlier notification never applies its result after the run of a later
\* one, and when the handlers have finished, the oldLinkMap snapshot holds
\* the links as of the latest notification.
C8_NeverOutOfOrder ==
    /\ [][(noteIndex.by >= 1 /\ noteIndex'.by >= 1) => noteIndex'.by >= noteIndex.by]_vars
    /\ [](HandlersDone /\ notifications >= 1 => oldLinkMap.links = notifications)

\* C9: isEqualToOrChildOf terminates for every pair of nodes of the vault
\* tree, the root folder as file1 included.
C9_IsEqualToOrChildOfTerminates ==
    (ieoc.pc = "loop") ~> (ieoc.pc = "done")

----------------------------------------------------------------------------
(* Claims about getAncestors *)

\* the chain from the root down to file: the root first, file last, each
\* element the parent of the next, no node twice
IsRootChain(chain, file) ==
    /\ Len(chain) >= 1
    /\ chain[1] = RootFolder
    /\ chain[Len(chain)] = file
    /\ \A i \in 1..(Len(chain) - 1) : chain[i] = Parent(chain[i + 1])
    /\ \A i \in 1..Len(chain), j \in 1..Len(chain) : chain[i] = chain[j] => i = j

\* C17: getAncestors(file) terminates and returns, for every node of the
\* vault tree, the chain from the root down to the node: the root first, the
\* node last, each element the parent of the next, no node twice; for the
\* root the list with the root alone.
C17_GetAncestorsRootChain ==
    /\ [](ga.pc = "done" => IsRootChain(ga.ancestors, ga.file))
    /\ [](ga.pc = "done" /\ ga.file = RootFolder => ga.ancestors = <<RootFolder>>)
    /\ ((ga.pc = "loop") ~> (ga.pc = "done"))

\* C17 witness: the call has returned for a node two levels below the
\* root, and for the root
C17_Witness ==
    /\ ga.pc = "done"
    /\ Len(ga.file) = 2
    /\ Len(ga.ancestors) = 3

----------------------------------------------------------------------------
(* Claims about the profile tags of a view *)

\* the tags the element carries as "math-booster-" classes
PluginTags(classList) == { c.name : c \in {x \in Range(classList) : x.plugin} }

\* C14: after setProfileTagAsCSSClass(view) the source and the preview
\* element of the view carry the class "math-booster-<tag>" exactly for the
\* tags of the profile resolved for the file of the view, whatever
\* "math-booster-" classes earlier calls left on the elements.
C14_ClassesAreProfileTags ==
    /\ PluginTags(view.source) = Range(profileTags)
    /\ PluginTags(view.preview) = Range(profileTags)

----------------------------------------------------------------------------
(* Claims about the two implementations of FileIO *)

\* the lines and the positions of a document
LineNumbers(doc) == 0..(Len(splitIntoLines(doc)) - 1)

Positions(doc) == { Position(from, to) : from \in 0..Len(doc), to \in 0..Len(doc) }

\* the call names a line of the document, or a range in it
InDocument(doc, c) ==
    IF c.op = "setRange"
    THEN c.position.start.offset <= c.position.end.offset /\ c.position.end.offset <= Len(doc)
    ELSE c.lineNumber \in LineNumbers(doc)

\* C11: ActiveNoteIO and NonActiveNoteIO are interchangeable: on the same
\* document and with the same arguments setLine, setRange and insertLine
\* leave the same text, and getLine and getRange return the same string.
C11_ImplementationsAgree ==
    /\ [][(call.write = "pending" /\ call'.write = "done" /\ InDocument(fileData, call))
             => fileData' = ActiveData(fileData, call)]_vars
    /\ [](\A lineNumber \in LineNumbers(fileData) :
             GetLineResult(fileData, lineNumber) = ActiveGetLineResult(fileData, lineNumber))
    /\ [](\A position \in {p \in Positions(fileData) : p.start.offset <= p.end.offset} :
             GetRangeResult(fileData, position) = ActiveGetRangeResult(fileData, position))

----------------------------------------------------------------------------
(* Claims about the entries of the settings table *)

\* C12: every key of the settings table maps to a settings object: after
\* loadSettings and any rename and delete events no path is in the table
\* with the value undefined; renaming a document without an override
\* creates no entry for the new path.
C12_EveryKeyMapsToObject ==
    phase = "ready" => \A p \in DOMAIN settings : settings[p].type = "object"

----------------------------------------------------------------------------
(* Claims about the local state of renamed and deleted folders *)

----------------------------------------------------------------------------
(* Claims about saving and loading *)

\* the overrides of a table: its paths that map to an object, with the
\* key/value pairs of each
Overrides(table) ==
    [p \in {q \in DOMAIN table : table[q].type = "object"} |-> table[p].fields]

\* C15: persistence round trip: in every state reached by loadSettings and
\* rename and delete events, saveSettings followed by loadSettings gives
\* the same overrides under the same paths, the same extraSettings and the
\* same excludedFiles; loading its own saved output changes nothing.
C15_SaveLoadRoundTrip ==
    phase = "ready" =>
        LET r == LoadSettingsResult(SavedData)
        IN /\ ~r.threw
           /\ Overrides(r.settings) = Overrides(settings)
           /\ r.extraSettings = extraSettings
           /\ r.excludedFiles = excludedFiles

\* C15 witness: after a rename, the table has an override that the loader
\* normalised, a path without one, and a document is excluded
C15_Witness ==
    /\ phase = "ready"
    /\ vault # Docs
    /\ \E p \in DOMAIN settings : p # VAULT_ROOT /\ settings[p].type = "object"
                                   /\ settings[p].fields["numberStyle"] = "arabic"
    /\ \E p \in DOMAIN settings : settings[p].type = "undefined"
    /\ excludedFiles.defined /\ Len(excludedFiles.list) >= 1
    /\ extraSettings["searchMethod"] = "Simple"

----------------------------------------------------------------------------
(* Claims about reading after a write *)

\* getRange over the whole note, as cachedRead gives it now
WholeNote == GetRangeResult(fileData, Position(0, Len(fileData)))

\* C16: read after write on a note that is not active: once the promise of
\* setLine, setRange or insertLine has resolved the modification is in the
\* file, and a getRange over the note issued then returns the new text,
\* never the text from before the write.
C16_ReadAfterWrite ==
    (call.promise = "resolved" /\ call.write = "pending") =>
        WholeNote = ProcessedData(fileData, call)

====
